---- MODULE Spec2Model ----
(***************************************************************************)
(* The vector index of smartcli (backend/retriever.py): the in-memory      *)
(* Retriever (index, commands, metadata), the two persisted files (the     *)
(* FAISS blob and the JSON sidecar) and the operations build_index,        *)
(* add_commands, save_index, load_index and search.  The operations run    *)
(* as handlers of one event loop (backend/app.py) or of a sequential       *)
(* script, one statement group at a time.                                  *)
(***************************************************************************)
EXTENDS Integers, Sequences, FiniteSets, TLC

\* ------------------------------------------------------------- bounds
\* longest command list handed to one build_index / add_commands call
MaxLen == 2
\* most vectors (and most commands) the index is grown to
MaxTotal == 3
\* build_index, add_commands and search calls made in one run
MaxCalls == 2

\* ------------------------------------------------------------- constants
TOP_K_CANDIDATES == 10
Dimension == 384

\* command texts that are indexed, and query texts
Cmds == {"a", "b"}
Queries == {"a", "c"}
Ks == {1, TOP_K_CANDIDATES}

VARIABLES
    index,      \* self.index: [exists, vecs]; exists = FALSE is None
    commands,   \* self.commands
    metadata,   \* self.metadata (a dict: a function on the keys it holds)
    blob,       \* the file FAISS_INDEX_PATH: [state, vecs]
    sidecar,    \* the file METADATA_PATH: [state, commands, metadata]
    pc,         \* position of the running handler, "idle" when none runs
    op,         \* the operation the caller invoked
    arg,        \* its command list
    sv,         \* its save flag
    pre,        \* the Retriever's fields when the running call started
    result,     \* what the last finished call returned or raised
    calls,      \* build_index, add_commands and search calls made so far
    call,       \* the call under way on a stateless component (the Ranker,
                \* the SafetyChecker) or on the SuggestionEngine: its inputs
    ret,        \* what that call returned
    error_patterns, \* ErrorFixer.error_patterns
    caller,     \* the list object last bound to self.commands by build_index:
                \*   list: what the caller's list holds now
                \*   passed: what it held when the caller passed it
                \*   aliased: self.commands is still that object
    hist        \* history, not program state:
                \*   paired: the two files were last written by the same
                \*     save_index call (or neither was ever written)
                \*   allOk: every call on this Retriever succeeded so far
                \*   everOk: a build_index or load_index succeeded on it
                \*   ioFailed: a file write failed in the last call
                \*   rebuilt: the list of the last /rebuild-index request
                \*     that succeeded on this server, <<>> when none did

vars == <<index, commands, metadata, blob, sidecar, pc, op, arg, sv, pre, result, calls,
          call, ret, error_patterns, caller, hist>>
mem == <<index, commands, metadata>>
disk == <<blob, sidecar>>
\* the calls on the other components of the pipeline
pipe == <<call, ret, error_patterns>>

\* ------------------------------------------------------------- values
NoIndex == [exists |-> FALSE, vecs |-> <<>>]
EmptyDict == [key \in {} |-> 0]
NoFile == [state |-> "absent", vecs |-> <<>>]
NoSidecar == [state |-> "absent", commands |-> <<>>, metadata |-> EmptyDict]
NoPre == [index |-> NoIndex, commands |-> <<>>, metadata |-> EmptyDict]
NoResult == [op |-> "none", arg |-> <<>>, status |-> "none", value |-> <<>>,
             query |-> "", k |-> 0]
NoCall == [fn |-> "none"]
NoRet == [fn |-> "none"]
NoCaller == [list |-> <<>>, passed |-> <<>>, aliased |-> FALSE]

Min(a, b) == IF a <= b THEN a ELSE b

CmdLists == UNION {[1..n -> Cmds] : n \in 0..MaxLen}

\* ------------------------------------------------------------- embedder
\* Embedder.embed of one text: a unit vector, the same for the same text
Embed1(text) ==
    CASE text = "a" -> <<1, 0>>
      [] text = "b" -> <<0, 1>>
      [] OTHER -> <<-1, 0>>

\* Embedder.embed of a list: one row per text, in the order given
EmbedAll(texts) == [i \in 1..Len(texts) |-> Embed1(texts[i])]

\* ------------------------------------------------------------- Retriever()
\* a Retriever just constructed, no file written yet
Fresh ==
    /\ index = NoIndex
    /\ commands = <<>>
    /\ metadata = EmptyDict
    /\ blob = NoFile
    /\ sidecar = NoSidecar
    /\ pc = "idle"
    /\ op = "none"
    /\ arg = <<>>
    /\ sv = FALSE
    /\ pre = NoPre
    /\ result = NoResult
    /\ calls = 0
    /\ caller = NoCaller
    /\ hist = [paired |-> TRUE, allOk |-> TRUE, everOk |-> FALSE,
               ioFailed |-> FALSE, rebuilt |-> <<>>]

Init ==
    /\ Fresh
    /\ error_patterns = <<>>
    /\ call = NoCall
    /\ ret = NoRet


\* ------------------------------------------------------------- scheduling
\* The handlers of app.py are `async def` bodies without an await and the
\* scripts are sequential: a handler starts only when none is running.
\* faulty variant: handlers run on threads and start at any time
HandlerMayStartAnyTime == TRUE

HandlerMayStart == pc = "idle"

\* one more call, within the bound of the run
Counted == calls < MaxCalls /\ calls' = calls + 1

Snapshot == [index |-> index, commands |-> commands, metadata |-> metadata]

Res(o, a, st) == [op |-> o, arg |-> a, status |-> st, value |-> <<>>,
                  query |-> "", k |-> 0]

Succeeded(st) == st \in {"ok", "True"}

\* the call o(a) raises or returns at once: control is back at the caller
Immediate(o, a, st) ==
    /\ pc' = "idle"
    /\ UNCHANGED <<op, arg, sv, pre>>
    /\ result' = Res(o, a, st)
    /\ hist' = [hist EXCEPT !.allOk = @ /\ Succeeded(st), !.ioFailed = FALSE]

\* the call o(a, save = s) is under way at position `at`
Called(o, a, s, at) ==
    /\ pc' = at
    /\ op' = o
    /\ arg' = a
    /\ sv' = s
    /\ pre' = Snapshot
    /\ result' = NoResult
    /\ hist' = [hist EXCEPT !.ioFailed = FALSE]

\* build_index returned normally: called directly, or by add_commands on a
\* Retriever without an index
BuildReturned(st) ==
    /\ st = "ok"
    /\ \/ op = "build_index"
       \/ op = "add_commands" /\ ~pre.index.exists

\* the running call ends with status st
Return(st) ==
    /\ pc' = "idle"
    /\ op' = "none"
    /\ arg' = <<>>
    /\ sv' = FALSE
    /\ pre' = NoPre
    /\ result' = Res(op, arg, st)

Ended(st) ==
    hist' = [hist EXCEPT !.allOk = @ /\ Succeeded(st),
                         !.everOk = @ \/ BuildReturned(st)]

\* ------------------------------------------------------------- build_index
\* faulty variant: the emptiness check is missing
BuildRejectsNever(cmds) == FALSE

\* `if not commands: raise ValueError`
BuildRejects(cmds) == cmds = <<>>

\* faulty variant: the embeddings are added to the index already there
BuildNewIndexAppend(ix, emb) == [exists |-> TRUE, vecs |-> ix.vecs \o emb]

\* a fresh IndexFlatL2 holding the embeddings
BuildNewIndex(ix, emb) == [exists |-> TRUE, vecs |-> emb]

BuildMetadata(cmds) ==
    [num_commands |-> Len(cmds), dimension |-> Dimension, index_type |-> "IndexFlatL2"]

\* build_index up to self.index.add(embeddings)
BuildCall ==
    \E L \in CmdLists, s \in BOOLEAN :
        /\ HandlerMayStart
        /\ Counted
        /\ \/ /\ BuildRejects(L)
              /\ Immediate("build_index", L, "ValueError")
              /\ UNCHANGED index
           \/ \* self.embedder.embed(commands) raises
              /\ ~BuildRejects(L)
              /\ Immediate("build_index", L, "EmbedError")
              /\ UNCHANGED index
           \/ /\ ~BuildRejects(L)
              /\ index' = BuildNewIndex(index, EmbedAll(L))
              /\ Called("build_index", L, s, "b_cmds")
        /\ UNCHANGED <<commands, metadata, disk, pipe, caller>>

\* `self.commands = commands` binds the field to the caller's list object
Bound(L) == [list |-> L, passed |-> L, aliased |-> TRUE]

\* self.commands = commands; self.metadata = {...}; then save or return
BuildSetCommands ==
    /\ pc = "b_cmds"
    /\ commands' = arg
    /\ caller' = Bound(arg)
    /\ metadata' = BuildMetadata(arg)
    /\ IF sv
       THEN /\ pc' = "s_blob"
            /\ UNCHANGED <<op, arg, sv, pre, result, hist>>
       ELSE /\ Return("ok")
            /\ Ended("ok")
    /\ UNCHANGED <<index, disk, calls, pipe>>

\* ------------------------------------------------------------- save_index
\* faiss.write_index: the vectors of the index, in order
WriteIndex(ix) == [state |-> "valid", vecs |-> ix.vecs]

\* json.dump({"commands": ..., "metadata": ...})
JsonDump(cmds, md) == [state |-> "valid", commands |-> cmds, metadata |-> md]

\* a file whose write stopped part-way: it exists and does not parse
CorruptBlob == [state |-> "corrupt", vecs |-> <<>>]
CorruptSidecar == [state |-> "corrupt", commands |-> <<>>, metadata |-> EmptyDict]

\* faulty variant: the handler prints and does not re-raise
SaveIndexSwallow(e) == "ok"

\* `except Exception as e: print(...); raise`: what leaves save_index when
\* a write raised e
SaveIndexExcept(e) == e

\* a write of save_index raised e inside the running call: past save_index's
\* handler nothing catches it on the way to the caller; `both` tells whether
\* the two files are now of the same save_index call
Raised(e, both) ==
    /\ Return(SaveIndexExcept(e))
    /\ hist' = [hist EXCEPT !.allOk = @ /\ Succeeded(SaveIndexExcept(e)),
                            !.everOk = @ \/ BuildReturned(SaveIndexExcept(e)),
                            !.ioFailed = TRUE,
                            !.paired = both]

\* faiss.write_index(self.index, path)
SaveBlob ==
    /\ pc = "s_blob"
    /\ \/ /\ blob' = WriteIndex(index)
          /\ pc' = "s_meta"
          /\ hist' = [hist EXCEPT !.paired = FALSE]
          /\ UNCHANGED <<op, arg, sv, pre, result>>
       \/ \* the file cannot be opened: nothing is written
          /\ blob' = blob
          /\ Raised("IOError", hist.paired)
       \/ \* the write stops part-way
          /\ blob' = CorruptBlob
          /\ Raised("IOError", FALSE)
    /\ UNCHANGED <<mem, sidecar, calls, pipe, caller>>

\* with open(METADATA_PATH, "w") as f: json.dump(...)
SaveMeta ==
    /\ pc = "s_meta"
    /\ \/ /\ sidecar' = JsonDump(commands, metadata)
          /\ Return("ok")
          /\ hist' = [hist EXCEPT !.everOk = @ \/ BuildReturned("ok"),
                                  !.paired = TRUE]
       \/ \* open() fails: the old sidecar stays
          /\ sidecar' = sidecar
          /\ Raised("IOError", FALSE)
       \/ \* the dump stops part-way: open() had truncated the file
          /\ sidecar' = CorruptSidecar
          /\ Raised("IOError", TRUE)
    /\ UNCHANGED <<mem, blob, calls, pipe, caller>>

\* ------------------------------------------------------------- add_commands
\* faulty variant: the new commands are put in front
ExtendFront(cmds, new) == new \o cmds

\* list.extend
Extend(cmds, new) == cmds \o new

\* index.add
IndexAdd(ix, emb) == [ix EXCEPT !.vecs = @ \o emb]

\* dict[key] = value
DictSet(d, key, value) ==
    [x \in DOMAIN d \cup {key} |-> IF x = key THEN value ELSE d[x]]

\* faulty variant: add_commands always appends
AddDelegatesNever(ix) == FALSE

\* `if self.index is None:` build_index(new_commands) instead of appending
AddDelegates(ix) == ~ix.exists

\* add_commands up to the update of the index
AddCall ==
    \E L \in CmdLists, s \in BOOLEAN :
        /\ HandlerMayStart
        /\ Counted
        /\ Len(index.vecs) + Len(L) <= MaxTotal
        /\ Len(commands) + Len(L) <= MaxTotal
        /\ \/ \* `if not new_commands: return`
              /\ L = <<>>
              /\ Immediate("add_commands", L, "ok")
              /\ UNCHANGED index
           \/ \* self.embedder.embed raises, here or in build_index
              /\ L # <<>>
              /\ Immediate("add_commands", L, "EmbedError")
              /\ UNCHANGED index
           \/ \* no index yet: build_index(new_commands, save), whose
              \* emptiness check passes
              /\ L # <<>>
              /\ AddDelegates(index)
              /\ index' = BuildNewIndex(index, EmbedAll(L))
              /\ Called("add_commands", L, s, "b_cmds")
           \/ /\ L # <<>>
              /\ ~AddDelegates(index)
              /\ index' = IndexAdd(index, EmbedAll(L))
              /\ Called("add_commands", L, s, "a_cmds")
        /\ UNCHANGED <<commands, metadata, disk, pipe, caller>>

\* list.extend works in place: every holder of the list object sees it
ExtendInPlace(c, new) ==
    IF c.aliased THEN [c EXCEPT !.list = Extend(@, new)] ELSE c

\* self.commands.extend(new_commands); self.metadata["num_commands"] = ...
AddCmds ==
    /\ pc = "a_cmds"
    /\ commands' = Extend(commands, arg)
    /\ caller' = ExtendInPlace(caller, arg)
    /\ metadata' = DictSet(metadata, "num_commands", Len(commands'))
    /\ IF sv
       THEN /\ pc' = "s_blob"
            /\ UNCHANGED <<op, arg, sv, pre, result, hist>>
       ELSE /\ Return("ok")
            /\ Ended("ok")
    /\ UNCHANGED <<index, disk, calls, pipe>>

\* ------------------------------------------------------------- load_index
\* faiss.read_index of a blob that parses
ReadIndex(file) == [exists |-> TRUE, vecs |-> file.vecs]

\* the whole of load_index: the fields it leaves and the flag it returns;
\* every exception of the body is caught and turned into False
LoadOutcome(ix, cmds, md, b, s) ==
    IF b.state = "absent" \/ s.state = "absent"
    THEN [index |-> ix, commands |-> cmds, metadata |-> md, status |-> "False"]
    ELSE IF b.state = "corrupt"
    THEN [index |-> ix, commands |-> cmds, metadata |-> md, status |-> "False"]
    ELSE IF s.state = "corrupt"
    THEN [index |-> ReadIndex(b), commands |-> cmds, metadata |-> md,
          status |-> "False"]
    ELSE [index |-> ReadIndex(b), commands |-> s.commands,
          metadata |-> s.metadata, status |-> "True"]

\* `self.commands = data["commands"]` binds the field to a new list
Rebound(c, st) == IF st = "True" THEN [c EXCEPT !.aliased = FALSE] ELSE c

\* load_index is not counted among the calls: it writes no file and
\* running it twice leaves what running it once leaves
LoadIndex ==
    /\ HandlerMayStart
    /\ LET out == LoadOutcome(index, commands, metadata, blob, sidecar) IN
        /\ index' = out.index
        /\ commands' = out.commands
        /\ caller' = Rebound(caller, out.status)
        /\ metadata' = out.metadata
        /\ result' = Res("load_index", <<>>, out.status)
        /\ hist' = [hist EXCEPT !.allOk = @ /\ Succeeded(out.status),
                                !.everOk = @ \/ out.status = "True",
                                !.ioFailed = FALSE]
    /\ UNCHANGED <<disk, pc, op, arg, sv, pre, calls, pipe>>

\* ------------------------------------------------------------- search
\* IndexFlatL2 reports the squared Euclidean distance
D2(u, v) == (u[1] - v[1]) * (u[1] - v[1]) + (u[2] - v[2]) * (u[2] - v[2])

\* positions (1-based) of the n nearest vectors among `left`, nearest first,
\* the lower position first among equally distant ones
RECURSIVE Nearest(_, _, _, _)
Nearest(vecs, qv, left, n) ==
    IF n = 0 \/ left = {}
    THEN <<>>
    ELSE LET best == CHOOSE i \in left : \A j \in left :
                        \/ D2(vecs[i], qv) < D2(vecs[j], qv)
                        \/ D2(vecs[i], qv) = D2(vecs[j], qv) /\ i <= j
         IN <<best>> \o Nearest(vecs, qv, left \ {best}, n - 1)

\* index.search(query_embedding, k): <<idx, distance>> pairs, idx 0-based
FaissSearch(vecs, qv, n) ==
    LET near == Nearest(vecs, qv, DOMAIN vecs, n) IN
    [r \in 1..Len(near) |-> [idx |-> near[r] - 1, dist |-> D2(vecs[near[r]], qv)]]

\* similarities = 1 - (distances[0] ** 2 / 2)
Similarity(dist) == 1 - ((dist * dist) \div 2)

\* the loop over enumerate(zip(indices, similarities)) with its idx guard
RECURSIVE BuildResults(_, _, _)
BuildResults(hits, cmds, rank) ==
    IF rank >= Len(hits)
    THEN <<>>
    ELSE LET h == hits[rank + 1] IN
         (IF h.idx < Len(cmds)
          THEN <<[command |-> cmds[h.idx + 1], score |-> Similarity(h.dist),
                  rank |-> rank]>>
          ELSE <<>>) \o BuildResults(hits, cmds, rank + 1)

\* search(query, k) when the embedding of the query does not raise
SearchOutcome(ix, cmds, query, k) ==
    IF ~ix.exists
    THEN [status |-> "RuntimeError", value |-> <<>>]
    ELSE IF Len(ix.vecs) = 0
    THEN [status |-> "ok", value |-> <<>>]
    ELSE [status |-> "ok",
          value |-> BuildResults(
              FaissSearch(ix.vecs, Embed1(query), Min(k, Len(ix.vecs))), cmds, 0)]

SearchResult(q, k, st, v) ==
    [op |-> "search", arg |-> <<>>, status |-> st, value |-> v, query |-> q, k |-> k]

Search ==
    \E q \in Queries, k \in Ks :
        /\ HandlerMayStart
        /\ Counted
        /\ LET out == SearchOutcome(index, commands, q, k) IN
            \/ result' = SearchResult(q, k, out.status, out.value)
            \/ \* self.embedder.embed_command raises
               /\ index.exists /\ Len(index.vecs) > 0
               /\ result' = SearchResult(q, k, "EmbedError", <<>>)
        /\ hist' = [hist EXCEPT !.allOk = @ /\ Succeeded(result'.status),
                                !.ioFailed = FALSE]
        /\ UNCHANGED <<mem, disk, pc, op, arg, sv, pre, pipe, caller>>

\* ------------------------------------------------------------- process end
\* The process ends (a script finishes, the server is stopped or killed) and
\* a new one constructs its Retriever: the files stay, the fields start anew.
Stop ==
    /\ index' = NoIndex
    /\ commands' = <<>>
    /\ metadata' = EmptyDict
    /\ pc' = "idle"
    /\ op' = "none"
    /\ arg' = <<>>
    /\ sv' = FALSE
    /\ pre' = NoPre
    /\ result' = NoResult
    /\ caller' = NoCaller
    /\ hist' = [hist EXCEPT !.allOk = TRUE, !.everOk = FALSE,
                            !.ioFailed = FALSE]
    /\ UNCHANGED <<disk, calls, pipe>>

Next ==
    \/ BuildCall
    \/ BuildSetCommands
    \/ SaveBlob
    \/ SaveMeta
    \/ AddCall
    \/ AddCmds
    \/ LoadIndex
    \/ Search
    \/ Stop

Spec == Init /\ [][Next]_vars

\* ------------------------------------------------------------- texts
\* A text is the sequence of its characters.  The operators below are the
\* string operations of Python the pipeline uses on command texts.
UpperLetters == <<"A", "B", "C", "D", "E", "F", "G", "H", "I", "J", "K", "L", "M",
                  "N", "O", "P", "Q", "R", "S", "T", "U", "V", "W", "X", "Y", "Z">>
LowerLetters == <<"a", "b", "c", "d", "e", "f", "g", "h", "i", "j", "k", "l", "m",
                  "n", "o", "p", "q", "r", "s", "t", "u", "v", "w", "x", "y", "z">>
Digits == {"0", "1", "2", "3", "4", "5", "6", "7", "8", "9"}

\* the characters \s matches and strip() removes
Whitespace == {" ", "\t", "\n"}

\* the characters \w matches
WordChars ==
    {UpperLetters[i] : i \in DOMAIN UpperLetters}
        \cup {LowerLetters[i] : i \in DOMAIN LowerLetters} \cup Digits \cup {"_"}

LowerChar(c) ==
    IF \E i \in DOMAIN UpperLetters : UpperLetters[i] = c
    THEN LowerLetters[CHOOSE i \in DOMAIN UpperLetters : UpperLetters[i] = c]
    ELSE c

UpperChar(c) ==
    IF \E i \in DOMAIN LowerLetters : LowerLetters[i] = c
    THEN UpperLetters[CHOOSE i \in DOMAIN LowerLetters : LowerLetters[i] = c]
    ELSE c

\* str.lower() and str.upper()
Lower(s) == [i \in 1..Len(s) |-> LowerChar(s[i])]
Upper(s) == [i \in 1..Len(s) |-> UpperChar(s[i])]

\* str.strip()
RECURSIVE LStrip(_)
LStrip(s) == IF s # <<>> /\ Head(s) \in Whitespace THEN LStrip(Tail(s)) ELSE s

RECURSIVE RStrip(_)
RStrip(s) ==
    IF s # <<>> /\ s[Len(s)] \in Whitespace THEN RStrip(SubSeq(s, 1, Len(s) - 1)) ELSE s

Strip(s) == RStrip(LStrip(s))

\* p occurs in s from position i on
OccursAt(s, p, i) ==
    /\ i >= 1
    /\ i + Len(p) - 1 <= Len(s)
    /\ \A j \in 1..Len(p) : s[i + j - 1] = p[j]

\* `p in s`
Contains(s, p) == \E i \in 1..(Len(s) + 1) : OccursAt(s, p, i)

\* s.startswith(p)
StartsWith(s, p) == OccursAt(s, p, 1)

\* \b at position i of s: between a word character and a non-word one
WordBoundary(s, i) ==
    LET before == i > 1 /\ i - 1 <= Len(s) /\ s[i - 1] \in WordChars
        after == i >= 1 /\ i <= Len(s) /\ s[i] \in WordChars
    IN before # after

\* A regular expression is the sequence of its items: a literal text
\* ("lit"), one or more characters of a set ("plus": \s+, [rf]+), one
\* character of a set ("one": \s), any run of characters outside a set
\* ("star": .*), \b ("wb") and ^ ("bol").
Lit(text) == [t |-> "lit", s |-> text, set |-> {}]
Plus(chars) == [t |-> "plus", s |-> <<>>, set |-> chars]
One(chars) == [t |-> "one", s |-> <<>>, set |-> chars]
Wb == [t |-> "wb", s |-> <<>>, set |-> {}]
Bol == [t |-> "bol", s |-> <<>>, set |-> {}]

\* the items of re from the k-th on match s from position i on
RECURSIVE MatchAt(_, _, _, _)
MatchAt(re, k, s, i) ==
    IF k > Len(re)
    THEN TRUE
    ELSE LET e == re[k] IN
         CASE e.t = "lit" -> OccursAt(s, e.s, i) /\ MatchAt(re, k + 1, s, i + Len(e.s))
           [] e.t = "plus" ->
                \E n \in 1..(Len(s) - i + 1) :
                    /\ \A j \in i..(i + n - 1) : s[j] \in e.set
                    /\ MatchAt(re, k + 1, s, i + n)
           [] e.t = "star" ->
                \E n \in 0..(Len(s) - i + 1) :
                    /\ \A j \in i..(i + n - 1) : s[j] \notin e.set
                    /\ MatchAt(re, k + 1, s, i + n)
           [] e.t = "one" -> i <= Len(s) /\ s[i] \in e.set /\ MatchAt(re, k + 1, s, i + 1)
           [] e.t = "wb" -> WordBoundary(s, i) /\ MatchAt(re, k + 1, s, i)
           [] e.t = "bol" -> i = 1 /\ MatchAt(re, k + 1, s, i)

\* re.search(pattern, s)
ReSearch(re, s) == \E i \in 1..(Len(s) + 1) : MatchAt(re, 1, s, i)

\* re.search(pattern, s, re.IGNORECASE), for a pattern of ASCII letters
LowerItem(e) ==
    [t |-> e.t, s |-> Lower(e.s), set |-> {LowerChar(c) : c \in e.set}]

IgnoreCase(re) == [k \in 1..Len(re) |-> LowerItem(re[k])]

ReSearchIgnoreCase(re, s) == ReSearch(IgnoreCase(re), Lower(s))

\* the texts of a list joined by single spaces, the empty ones left out
RECURSIVE Words(_)
Words(parts) ==
    IF parts = <<>>
    THEN <<>>
    ELSE LET rest == Words(Tail(parts)) IN
         IF Head(parts) = <<>> THEN rest
         ELSE IF rest = <<>> THEN Head(parts)
         ELSE Head(parts) \o <<" ">> \o rest

\* ------------------------------------------------------------- SafetyChecker
\* DESTRUCTIVE_COMMANDS.items(), the patterns of each key in turn
DESTRUCTIVE_COMMANDS ==
    <<<<"r", "m", " ", "-", "r", "f">>,
      <<"r", "m", " ", "-", "f", "r">>,
      <<"r", "m", " ", "-", "r">>,
      <<"r", "m", " ", "-", "f">>,
      <<"d", "d", " ", "i", "f", "=">>,
      <<"d", "d", " ", "o", "f", "=">>,
      <<"m", "k", "f", "s", ".">>,
      <<"m", "k", "f", "s", " ">>,
      <<"f", "d", "i", "s", "k">>,
      <<"p", "a", "r", "t", "e", "d">>,
      <<">", " ", "/", "d", "e", "v", "/">>,
      <<"f", "o", "r", "m", "a", "t">>,
      <<"s", "h", "r", "e", "d">>,
      <<"w", "i", "p", "e", "f", "s">>>>

\* SUDO_DANGEROUS_PATTERNS: sudo\s+rm\s+-[rf]+, sudo\s+dd, sudo\s+mkfs,
\* sudo\s+chmod\s+-R\s+777, sudo\s+chown\s+-R
SUDO_DANGEROUS_PATTERNS ==
    <<<<Lit(<<"s", "u", "d", "o">>), Plus(Whitespace), Lit(<<"r", "m">>), Plus(Whitespace), Lit(<<"-">>), Plus({"r", "f"})>>,
      <<Lit(<<"s", "u", "d", "o">>), Plus(Whitespace), Lit(<<"d", "d">>)>>,
      <<Lit(<<"s", "u", "d", "o">>), Plus(Whitespace), Lit(<<"m", "k", "f", "s">>)>>,
      <<Lit(<<"s", "u", "d", "o">>), Plus(Whitespace), Lit(<<"c", "h", "m", "o", "d">>), Plus(Whitespace), Lit(<<"-", "R">>), Plus(Whitespace), Lit(<<"7", "7", "7">>)>>,
      <<Lit(<<"s", "u", "d", "o">>), Plus(Whitespace), Lit(<<"c", "h", "o", "w", "n">>), Plus(Whitespace), Lit(<<"-", "R">>)>>>>

CRITICAL_PATHS ==
    <<<<"/">>,
      <<"/", "b", "i", "n">>,
      <<"/", "b", "o", "o", "t">>,
      <<"/", "d", "e", "v">>,
      <<"/", "e", "t", "c">>,
      <<"/", "l", "i", "b">>,
      <<"/", "p", "r", "o", "c">>,
      <<"/", "r", "o", "o", "t">>,
      <<"/", "s", "b", "i", "n">>,
      <<"/", "s", "y", "s">>,
      <<"/", "u", "s", "r">>,
      <<"/", "v", "a", "r">>>>

\* the verbs that make a critical path a reason: ["rm", "dd", "mkfs", ">"]
CriticalPathVerbs == {<<"r", "m">>, <<"d", "d">>, <<"m", "k", "f", "s">>, <<">">>}

\* the verbs of the force-flag pass: ["rm", "mkfs", "dd"]
ForceVerbs == {<<"r", "m">>, <<"m", "k", "f", "s">>, <<"d", "d">>}

\* the critical danger indicators: ["rm -rf /", "dd of=/dev/sda", "mkfs."]
CriticalIndicators == {<<"r", "m", " ", "-", "r", "f", " ", "/">>, <<"d", "d", " ", "o", "f", "=", "/", "d", "e", "v", "/", "s", "d", "a">>, <<"m", "k", "f", "s", ".">>}

NO_PRESERVE_ROOT == <<"-", "-", "n", "o", "-", "p", "r", "e", "s", "e", "r", "v", "e", "-", "r", "o", "o", "t">>
SUDO == <<"s", "u", "d", "o">>
FORCE_SHORT == <<"-", "f">>
FORCE_LONG == <<"-", "-", "f", "o", "r", "c", "e">>

Reason(kind, detail) == [kind |-> kind, detail |-> detail]

\* pass 1: `if pattern in command_lower`
DestructiveReasons(command_lower) ==
    LET Test(p) == Contains(command_lower, p)
        hit == SelectSeq(DESTRUCTIVE_COMMANDS, Test)
    IN [i \in 1..Len(hit) |-> Reason("destructive", hit[i])]

\* pass 2: `if re.search(pattern, command_lower)`
SudoReasons(command_lower) ==
    LET Test(p) == ReSearch(p, command_lower)
        hit == SelectSeq(SUDO_DANGEROUS_PATTERNS, Test)
    IN [i \in 1..Len(hit) |-> Reason("sudo", <<>>)]

\* pass 3: the path occurs in the command as given, a verb in command_lower
CriticalPathReasons(command, command_lower) ==
    LET Test(path) ==
            /\ Contains(command, <<" ">> \o path) \/ StartsWith(command, path)
            /\ \E verb \in CriticalPathVerbs : Contains(command_lower, verb)
        hit == SelectSeq(CRITICAL_PATHS, Test)
    IN [i \in 1..Len(hit) |-> Reason("critical_path", hit[i])]

\* pass 4
NoPreserveRootReasons(command_lower) ==
    IF Contains(command_lower, NO_PRESERVE_ROOT)
    THEN <<Reason("no_preserve_root", <<>>)>>
    ELSE <<>>

\* pass 5: the force flag is looked for in the command as given
ForceReasons(command, command_lower) ==
    IF /\ Contains(command_lower, SUDO)
       /\ Contains(command, FORCE_SHORT) \/ Contains(command, FORCE_LONG)
       /\ \E verb \in ForceVerbs : Contains(command_lower, verb)
    THEN <<Reason("forced", <<>>)>>
    ELSE <<>>

\* faulty variant: every command with a reason is dangerous
SafetyLevelAlwaysDangerous(command_lower, reasons) ==
    IF reasons # <<>> THEN "dangerous" ELSE "safe"

\* `if reasons:` dangerous with a critical indicator, warning without
SafetyLevelOf(command_lower, reasons) ==
    IF reasons # <<>>
    THEN IF \E indicator \in CriticalIndicators : Contains(command_lower, indicator)
         THEN "dangerous"
         ELSE "warning"
    ELSE "safe"

\* the warning text: None for a safe command
WarningOf(level) ==
    CASE level = "dangerous" -> "DANGEROUS: This command could cause data loss or system damage!"
      [] level = "warning" -> "WARNING: This command could be destructive. Use with caution."
      [] OTHER -> "None"

\* SafetyChecker.check_command
CheckCommand(command) ==
    LET command_lower == Lower(Strip(command))
        reasons == DestructiveReasons(command_lower)
                       \o SudoReasons(command_lower)
                       \o CriticalPathReasons(command, command_lower)
                       \o NoPreserveRootReasons(command_lower)
                       \o ForceReasons(command, command_lower)
        level == SafetyLevelOf(command_lower, reasons)
    IN [fn |-> "check_command", level |-> level, warning |-> WarningOf(level),
        reasons |-> reasons]

\* the commands checked: [sudo] verb [flags] [target], as written and in
\* upper case, and the commands of tests/test_safety.py
SafetyPrefixes == {<<>>, <<"s", "u", "d", "o">>}
SafetyVerbs == {<<"r", "m">>, <<"d", "d">>, <<"m", "k", "f", "s", ".", "e", "x", "t", "4">>, <<"c", "h", "m", "o", "d">>, <<"c", "h", "o", "w", "n">>, <<"l", "s">>, <<"r", "m", "m", "o", "d">>}
SafetyFlags ==
    {<<>>, <<"-", "r", "f">>, <<"-", "f">>, <<"-", "R", " ", "7", "7", "7">>, <<"-", "R">>, <<"-", "l", "a">>, <<"-", "-", "n", "o", "-", "p", "r", "e", "s", "e", "r", "v", "e", "-", "r", "o", "o", "t">>}
SafetyTargets == {<<>>, <<"/">>, <<"/", "e", "t", "c">>, <<"x">>}
RM_RF_ROOT == <<"r", "m", " ", "-", "r", "f", " ", "/">>
LS_LA == <<"l", "s", " ", "-", "l", "a">>
SUDO_CHMOD_ETC == <<"s", "u", "d", "o", " ", "c", "h", "m", "o", "d", " ", "-", "R", " ", "7", "7", "7", " ", "/", "e", "t", "c">>
SUDO_CHOWN_ROOT == <<"s", "u", "d", "o", " ", "c", "h", "o", "w", "n", " ", "-", "R", " ", "u", "s", "e", "r", ":", "g", "r", "o", "u", "p", " ", "/">>

SafetyCommands ==
    LET written == {Words(<<p, v, f, t>>) :
                       p \in SafetyPrefixes, v \in SafetyVerbs,
                       f \in SafetyFlags, t \in SafetyTargets}
                       \cup {RM_RF_ROOT, LS_LA, SUDO_CHMOD_ETC, SUDO_CHOWN_ROOT}
    IN written \cup {Upper(c) : c \in written}


\* the call of check_command on one command
SafetyInit ==
    /\ Fresh
    /\ error_patterns = <<>>
    /\ call \in {[fn |-> "check_command", command |-> c] : c \in SafetyCommands}
    /\ ret = NoRet

CheckCommandCall ==
    /\ call.fn = "check_command"
    /\ ret = NoRet
    /\ ret' = CheckCommand(call.command)
    /\ UNCHANGED <<mem, disk, pc, op, arg, sv, pre, result, calls, call, hist,
                   error_patterns, caller>>

SafetyNext == CheckCommandCall

SafetySpec == SafetyInit /\ [][SafetyNext]_vars

\* ------------------------------------------------------------- Ranker
\* The characters of the command texts of the model.
Chars(text) ==
    CASE text = "a" -> <<"a">>
      [] text = "b" -> <<"b">>
      [] text = "git add x.py" -> <<"g", "i", "t", " ", "a", "d", "d", " ", "x", ".", "p", "y">>
      [] text = "npm test" -> <<"n", "p", "m", " ", "t", "e", "s", "t">>

\* Scores are fractions with two decimals: context_score and final_score
\* are held in hundredths, the score of a search result in units.
Scale == 100

\* self.context_weights, in hundredths
context_weights ==
    [semantic_similarity |-> 50, git_match |-> 15, directory_type_match |-> 15,
     file_type_match |-> 10, recency |-> 10]

Max(a, b) == IF a >= b THEN a ELSE b

\* git_patterns of _is_git_command
git_patterns ==
    <<<<Bol, Lit(<<"g", "i", "t">>), One(Whitespace)>>,
      <<Wb, Lit(<<"g", "i", "t">>), One(Whitespace)>>,
      <<Lit(<<"g", "i", "t", " ", "c", "o", "m", "m", "i", "t">>)>>,
      <<Lit(<<"g", "i", "t", " ", "p", "u", "s", "h">>)>>,
      <<Lit(<<"g", "i", "t", " ", "p", "u", "l", "l">>)>>,
      <<Lit(<<"g", "i", "t", " ", "c", "h", "e", "c", "k", "o", "u", "t">>)>>,
      <<Lit(<<"g", "i", "t", " ", "b", "r", "a", "n", "c", "h">>)>>,
      <<Lit(<<"g", "i", "t", " ", "s", "t", "a", "t", "u", "s">>)>>,
      <<Lit(<<"g", "i", "t", " ", "a", "d", "d">>)>>,
      <<Lit(<<"g", "i", "t", " ", "d", "i", "f", "f">>)>>,
      <<Lit(<<"g", "i", "t", " ", "l", "o", "g">>)>>,
      <<Lit(<<"g", "i", "t", " ", "m", "e", "r", "g", "e">>)>>,
      <<Lit(<<"g", "i", "t", " ", "r", "e", "b", "a", "s", "e">>)>>>>

\* the patterns of a list as re.IGNORECASE reads them
AllIgnoreCase(patterns) == [k \in DOMAIN patterns |-> IgnoreCase(patterns[k])]

\* any(re.search(pattern, command, re.IGNORECASE) for pattern in patterns),
\* for patterns already read that way
AnyPatternMatches(patterns, text) ==
    LET text_lower == Lower(text) IN
    \E k \in DOMAIN patterns : ReSearch(patterns[k], text_lower)

GitPatternsIgnoreCase == AllIgnoreCase(git_patterns)

IsGitCommand(text) == AnyPatternMatches(GitPatternsIgnoreCase, text)

\* type_patterns of _matches_directory_type; a tag without patterns has none
type_patterns(dtype) ==
    CASE dtype = "python" ->
          <<<<Wb, Lit(<<"p", "y", "t", "h", "o", "n">>), Wb>>,
            <<Wb, Lit(<<"p", "i", "p">>), Wb>>,
            <<Wb, Lit(<<"p", "y", "t", "e", "s", "t">>), Wb>>,
            <<Lit(<<".", "p", "y">>), Wb>>,
            <<Wb, Lit(<<"v", "e", "n", "v">>), Wb>>,
            <<Wb, Lit(<<"c", "o", "n", "d", "a">>), Wb>>,
            <<Wb, Lit(<<"p", "o", "e", "t", "r", "y">>), Wb>>>>
      [] dtype = "node" ->
          <<<<Wb, Lit(<<"n", "p", "m">>), Wb>>,
            <<Wb, Lit(<<"n", "o", "d", "e">>), Wb>>,
            <<Wb, Lit(<<"y", "a", "r", "n">>), Wb>>,
            <<Wb, Lit(<<"p", "n", "p", "m">>), Wb>>,
            <<Lit(<<"p", "a", "c", "k", "a", "g", "e", ".", "j", "s", "o", "n">>)>>,
            <<Lit(<<".", "j", "s">>), Wb>>,
            <<Lit(<<".", "t", "s">>), Wb>>>>
      [] dtype = "rust" ->
          <<<<Wb, Lit(<<"c", "a", "r", "g", "o">>), Wb>>,
            <<Wb, Lit(<<"r", "u", "s", "h", "c">>), Wb>>,
            <<Lit(<<".", "r", "s">>), Wb>>>>
      [] dtype = "go" ->
          <<<<Wb, Lit(<<"g", "o">>), One(Whitespace)>>,
            <<Lit(<<".", "g", "o">>), Wb>>,
            <<Lit(<<"g", "o", " ", "m", "o", "d">>)>>,
            <<Lit(<<"g", "o", " ", "b", "u", "i", "l", "d">>)>>,
            <<Lit(<<"g", "o", " ", "t", "e", "s", "t">>)>>>>
      [] dtype = "java" ->
          <<<<Wb, Lit(<<"m", "v", "n">>), Wb>>,
            <<Wb, Lit(<<"g", "r", "a", "d", "l", "e">>), Wb>>,
            <<Lit(<<".", "j", "a", "v", "a">>), Wb>>,
            <<Lit(<<".", "j", "a", "r">>), Wb>>,
            <<Wb, Lit(<<"j", "a", "v", "a", "c">>), Wb>>>>
      [] dtype = "docker" ->
          <<<<Wb, Lit(<<"d", "o", "c", "k", "e", "r">>), Wb>>,
            <<Lit(<<"d", "o", "c", "k", "e", "r", "-", "c", "o", "m", "p", "o", "s", "e">>)>>,
            <<Lit(<<"d", "o", "c", "k", "e", "r", "f", "i", "l", "e">>)>>,
            <<Lit(<<".", "d", "o", "c", "k", "e", "r", "f", "i", "l", "e">>), Wb>>>>
      [] OTHER -> <<>>

TypeTags == {"python", "node", "rust", "go", "java", "docker"}

TypePatternsIgnoreCase == [dtype \in TypeTags |-> AllIgnoreCase(type_patterns(dtype))]

\* type_patterns.get(dtype, []), read with re.IGNORECASE
PatternsOfType(dtype) ==
    IF dtype \in TypeTags THEN TypePatternsIgnoreCase[dtype] ELSE <<>>

\* dir_type is the comma-joined list of tags: here the sequence of the tags
MatchesDirectoryType(text, dir_type) ==
    \E i \in DOMAIN dir_type : AnyPatternMatches(PatternsOfType(dir_type[i]), text)

NO_EXTENSION == <<"n", "o", "_", "e", "x", "t", "e", "n", "s", "i", "o", "n">>
GENERAL == <<"general">>

\* ext.lstrip(".")
RECURSIVE LStripDots(_)
LStripDots(ext) == IF ext # <<>> /\ Head(ext) = "." THEN LStripDots(Tail(ext)) ELSE ext

\* file_types is the dict extension -> count
MatchesFileTypes(text, file_types) ==
    \E ext \in DOMAIN file_types :
        /\ ext # NO_EXTENSION
        /\ \/ Contains(Lower(text), LStripDots(ext))
           \/ Contains(Lower(text), ext)

\* faulty variant: the weight is added as it is
ContextShareUndivided(weight) == weight

\* weight / (1 - semantic_similarity), in hundredths
ContextShare(weight) ==
    (weight * Scale) \div (Scale - context_weights.semantic_similarity)

\* Ranker._compute_context_score
ComputeContextScore(command, context) ==
    LET text == Chars(command)
        git == IF context.git_info.is_git_repo /\ IsGitCommand(text)
               THEN ContextShare(context_weights.git_match) ELSE 0
        dir == IF /\ context.directory_type # <<>>
                  /\ context.directory_type # GENERAL
                  /\ MatchesDirectoryType(text, context.directory_type)
               THEN ContextShare(context_weights.directory_type_match) ELSE 0
        file == IF /\ DOMAIN context.file_types # {}
                   /\ MatchesFileTypes(text, context.file_types)
                THEN ContextShare(context_weights.file_type_match) ELSE 0
    IN Min(git + dir + file, Scale)

\* the final score, in hundredths, of a semantic score given in units
FinalScore(semantic_score, context_score) ==
    (context_weights.semantic_similarity * (semantic_score * Scale)
        + (Scale - context_weights.semantic_similarity) * context_score) \div Scale

\* the body of the loop of rank: the candidate with its three scores
ScoreCandidate(candidate, context) ==
    LET context_score == ComputeContextScore(candidate.command, context) IN
    [command |-> candidate.command, score |-> candidate.score, rank |-> candidate.rank,
     context_score |-> context_score,
     final_score |-> FinalScore(candidate.score, context_score),
     semantic_score |-> candidate.score]

\* sorted(..., key = final_score, reverse = True): a stable sort, so x goes
\* behind every member that is not below it
InsertDescending(sorted, x) ==
    LET n == Cardinality({i \in DOMAIN sorted : sorted[i].final_score >= x.final_score})
    IN SubSeq(sorted, 1, n) \o <<x>> \o SubSeq(sorted, n + 1, Len(sorted))

RECURSIVE SortDescending(_)
SortDescending(items) ==
    IF items = <<>>
    THEN <<>>
    ELSE InsertDescending(SortDescending(SubSeq(items, 1, Len(items) - 1)),
                          items[Len(items)])

\* items[:stop] for an integer stop
SliceTo(items, stop) ==
    SubSeq(items, 1, IF stop >= 0 THEN Min(stop, Len(items))
                     ELSE Max(Len(items) + stop, 0))

\* Ranker.rank
Rank(candidates, context, max_results) ==
    IF candidates = <<>>
    THEN <<>>
    ELSE SliceTo(SortDescending([i \in DOMAIN candidates |->
                                     ScoreCandidate(candidates[i], context)]),
                 max_results)

\* ------------------------------------------------------------- requests
MAX_SUGGESTIONS == 5

\* the max_suggestions values of a request: any integer passes the request
\* model
MaxSuggestionsValues == {-1, 0, 1, MaxLen, MAX_SUGGESTIONS}

PY_EXT == <<".", "p", "y">>

\* the contexts extract_context hands on: inside a git work tree or not,
\* the tags of the directory, the extensions seen in it
Contexts ==
    {[git_info |-> [is_git_repo |-> g], directory_type |-> d, file_types |-> f] :
        g \in BOOLEAN,
        d \in {GENERAL, <<"python">>, <<"python", "node">>},
        f \in {EmptyDict, [ext \in {PY_EXT} |-> 1]}}

\* ------------------------------------------------------------- rank alone
RankCommands == {"a", "git add x.py", "npm test"}

\* the scores search gives to unit vectors
SearchScores == {Similarity(d2) : d2 \in {0, 2, 4}}

\* what search hands to rank: the ranks 0, 1, ... and non-increasing scores
CandidateLists ==
    UNION {{c \in [1..n -> [command : RankCommands, score : SearchScores, rank : 0..(n - 1)]] :
               /\ \A i \in 1..n : c[i].rank = i - 1
               /\ \A i \in 1..(n - 1) : c[i].score >= c[i + 1].score} :
           n \in 0..MaxLen}

RankInit ==
    /\ Fresh
    /\ error_patterns = <<>>
    /\ call \in {[fn |-> "rank", candidates |-> c, context |-> x, max_results |-> m] :
                    c \in CandidateLists, x \in Contexts, m \in MaxSuggestionsValues}
    /\ ret = NoRet

RankCall ==
    /\ call.fn = "rank"
    /\ ret = NoRet
    /\ ret' = [fn |-> "rank",
               ranked |-> Rank(call.candidates, call.context, call.max_results)]
    /\ UNCHANGED <<mem, disk, pc, op, arg, sv, pre, result, calls, call, hist,
                   error_patterns, caller>>

RankNext == RankCall

RankSpec == RankInit /\ [][RankNext]_vars


\* ------------------------------------------------------------- SuggestionEngine
ENABLE_SAFETY_CHECK == TRUE

NO_INDEX_MESSAGE == "Index not loaded. Call load_index() or build_index() first."
NO_CANDIDATES_MESSAGE == "No similar commands found"

\* The engine searches with the context: embed_command embeds the text
\* f"{command} [Context: ...]", which is no text of the index; its embedding
\* is some unit vector.
UnitVectors == {<<1, 0>>, <<0, 1>>, <<-1, 0>>}

\* search once the query is embedded into the vector qv
SearchByVector(ix, cmds, qv, k) ==
    IF ~ix.exists
    THEN [status |-> "RuntimeError", value |-> <<>>]
    ELSE IF Len(ix.vecs) = 0
    THEN [status |-> "ok", value |-> <<>>]
    ELSE [status |-> "ok",
          value |-> BuildResults(FaissSearch(ix.vecs, qv, Min(k, Len(ix.vecs))), cmds, 0)]

\* suggestion["safety"] = check_command(suggestion["command"])
AnnotateSafety(ranked) ==
    [i \in DOMAIN ranked |->
        DictSet(ranked[i], "safety", CheckCommand(Chars(ranked[i].command)))]

\* faulty variant: every suggestion is kept
DedupKeepAll(ranked) == ranked

\* the loop over ranked with seen_commands: the first suggestion of each
\* command text, in the order of ranked
Dedup(ranked) ==
    LET Keep(i) == \A j \in 1..(i - 1) : ranked[j].command # ranked[i].command
        kept == {i \in DOMAIN ranked : Keep(i)}
        Nth(n) == CHOOSE i \in kept : Cardinality({j \in kept : j <= i}) = n
    IN [n \in 1..Cardinality(kept) |-> ranked[Nth(n)]]

\* faulty variant: the engine has no except clause
EngineCatchesNothing(e) == FALSE

\* `except RuntimeError`
EngineCatches(e) == e = "RuntimeError"

\* get_suggestions returns the dict `response`; `ranked` records, as
\* history, what the ranker (and the safety pass) handed to the filter
Returned(response, ranked) ==
    [fn |-> "get_suggestions", raised |-> "none", response |-> response,
     ranked |-> ranked]

\* get_suggestions raises e
Raises(e) ==
    [fn |-> "get_suggestions", raised |-> e, response |-> EmptyDict, ranked |-> <<>>]

\* SuggestionEngine.get_suggestions once the context is extracted and when
\* the embedding of the query does not raise
GetSuggestionsOutcome(ix, cmds, qv, context, max_suggestions) ==
    LET found == SearchByVector(ix, cmds, qv, TOP_K_CANDIDATES) IN
    IF found.status # "ok"
    THEN IF EngineCatches(found.status)
         THEN Returned([success |-> FALSE, error |-> NO_INDEX_MESSAGE,
                        suggestions |-> <<>>, context |-> context], <<>>)
         ELSE Raises(found.status)
    ELSE IF found.value = <<>>
    THEN Returned([success |-> TRUE, suggestions |-> <<>>, context |-> context,
                   message |-> NO_CANDIDATES_MESSAGE], <<>>)
    ELSE LET ranked == Rank(found.value, context, max_suggestions)
             annotated == IF ENABLE_SAFETY_CHECK THEN AnnotateSafety(ranked) ELSE ranked
         IN Returned([success |-> TRUE, suggestions |-> Dedup(annotated),
                      context |-> context, total_candidates |-> Len(found.value)],
                     annotated)

\* the files a server can find at its start: nothing, a file whose write
\* stopped part-way, or what a save of a built index wrote
PersistedBlobs ==
    {NoFile, CorruptBlob}
        \cup {WriteIndex(BuildNewIndex(NoIndex, EmbedAll(L))) : L \in CmdLists \ {<<>>}}

PersistedSidecars ==
    {NoSidecar, CorruptSidecar}
        \cup {JsonDump(L, BuildMetadata(L)) : L \in CmdLists \ {<<>>}}

\* both files exist, parse, and hold the same number of entries for the
\* same texts
SamePair(b, s) ==
    \/ b.state = "absent" /\ s.state = "absent"
    \/ b.state = "valid" /\ s.state = "valid" /\ b.vecs = EmbedAll(s.commands)

\* The server starts: SuggestionEngine() takes get_retriever(), which
\* constructs the Retriever and calls load_index() on the files it finds
\* (save_index writes the sidecar only after the blob).
EngineInit ==
    \E b \in PersistedBlobs, s \in PersistedSidecars :
        LET out == LoadOutcome(NoIndex, <<>>, EmptyDict, b, s) IN
        /\ b.state = "absent" => s.state = "absent"
        /\ blob = b
        /\ sidecar = s
        /\ index = out.index
        /\ commands = out.commands
        /\ metadata = out.metadata
        /\ pc = "idle"
        /\ op = "none"
        /\ arg = <<>>
        /\ sv = FALSE
        /\ pre = NoPre
        /\ result = Res("load_index", <<>>, out.status)
        /\ calls = 0
        /\ call = NoCall
        /\ ret = NoRet
        /\ caller = NoCaller
        /\ error_patterns = <<>>
        /\ hist = [paired |-> SamePair(b, s), allOk |-> Succeeded(out.status),
                   everOk |-> out.status = "True", ioFailed |-> FALSE,
                   rebuilt |-> <<>>]

\* one whole call of SuggestionEngine.get_suggestions, as the handler of
\* /suggest makes it; the run follows the server up to the answer to one
\* suggestion request
GetSuggestions ==
    \E q \in Queries, x \in Contexts, m \in MaxSuggestionsValues, qv \in UnitVectors :
        /\ HandlerMayStart
        /\ ret = NoRet
        /\ call' = [fn |-> "get_suggestions", query |-> q, context |-> x,
                    max_suggestions |-> m]
        /\ \/ ret' = GetSuggestionsOutcome(index, commands, qv, x, m)
           \/ \* self.embedder.embed_command raises
              /\ index.exists /\ Len(index.vecs) > 0
              /\ ret' = Raises("EmbedError")
        /\ UNCHANGED <<mem, disk, pc, op, arg, sv, pre, result, calls, hist,
                       error_patterns, caller>>

EngineNext == GetSuggestions

EngineSpec == EngineInit /\ [][EngineNext]_vars

\* ------------------------------------------------------------- /rebuild-index
\* what save_index leaves of the files b and s when it writes the index ix,
\* the commands and the metadata; `was` tells whether b and s were of one
\* save_index call
SaveOutcomes(ix, cmds, md, b, s, was) ==
    {[blob |-> WriteIndex(ix), sidecar |-> JsonDump(cmds, md), status |-> "ok",
      paired |-> TRUE],
     \* the blob cannot be opened, or its write stops part-way
     [blob |-> b, sidecar |-> s, status |-> "IOError", paired |-> was],
     [blob |-> CorruptBlob, sidecar |-> s, status |-> "IOError", paired |-> FALSE],
     \* the blob is written; the sidecar cannot be opened, or its dump stops
     [blob |-> WriteIndex(ix), sidecar |-> s, status |-> "IOError", paired |-> FALSE],
     [blob |-> WriteIndex(ix), sidecar |-> CorruptSidecar, status |-> "IOError",
      paired |-> TRUE]}

\* the request raised: the handler answers with status 500
RebuildFails(L, st) ==
    /\ result' = Res("build_index", L, st)
    /\ hist' = [hist EXCEPT !.allOk = FALSE, !.ioFailed = FALSE]
    /\ UNCHANGED <<mem, disk, caller>>

\* one whole request to /rebuild-index: get_retriever() hands out the
\* Retriever the engine holds, and build_index(request.commands, save=True)
\* runs on it
RebuildIndex ==
    \E L \in CmdLists :
        /\ HandlerMayStart
        /\ Counted
        /\ ret = NoRet
        /\ \/ /\ BuildRejects(L)
              /\ RebuildFails(L, "ValueError")
           \/ \* self.embedder.embed(commands) raises
              /\ ~BuildRejects(L)
              /\ RebuildFails(L, "EmbedError")
           \/ /\ ~BuildRejects(L)
              /\ index' = BuildNewIndex(index, EmbedAll(L))
              /\ commands' = L
              /\ caller' = Bound(L)
              /\ metadata' = BuildMetadata(L)
              /\ \E out \in SaveOutcomes(index', L, metadata', blob, sidecar, hist.paired) :
                    LET st == IF out.status = "ok" THEN "ok"
                              ELSE SaveIndexExcept(out.status) IN
                    /\ blob' = out.blob
                    /\ sidecar' = out.sidecar
                    /\ result' = Res("build_index", L, st)
                    /\ hist' = [paired |-> out.paired,
                                allOk |-> hist.allOk /\ Succeeded(st),
                                everOk |-> hist.everOk \/ st = "ok",
                                ioFailed |-> out.status # "ok",
                                rebuilt |-> IF st = "ok" THEN L ELSE hist.rebuilt]
        /\ UNCHANGED <<pc, op, arg, sv, pre, pipe>>

\* the server is started for the first time: no file is there yet
ServerInit == EngineInit /\ blob = NoFile

\* the server: requests to /rebuild-index, then one to /suggest
ServerNext ==
    \/ RebuildIndex
    \/ GetSuggestions

ServerSpec == ServerInit /\ [][ServerNext]_vars

\* ------------------------------------------------------------- ErrorFixer
\* An error pattern is [pattern, category, fixes, description]; the pattern
\* is a text, the other strings are used whole.
\* the list _create_default_database writes and installs
default_patterns ==
    <<
      [pattern |-> <<"p", "e", "r", "m", "i", "s", "s", "i", "o", "n", " ", "d", "e",
                   "n", "i", "e", "d">>,
       category |-> "permissions",
       fixes |-> <<"Try using sudo: sudo <command>",
                   "Check file permissions: ls -l <file>",
                   "Change permissions: chmod +x <file>">>,
       description |-> "Permission error when executing command"],
      [pattern |-> <<"c", "o", "m", "m", "a", "n", "d", " ", "n", "o", "t", " ", "f",
                   "o", "u", "n", "d">>,
       category |-> "not_found",
       fixes |-> <<"Install the command using your package manager",
                   "Check if the command is in your PATH: echo $PATH",
                   "Try using the full path to the executable">>,
       description |-> "Command not found in PATH"],
      [pattern |-> <<"N", "o", " ", "s", "u", "c", "h", " ", "f", "i", "l", "e", " ",
                   "o", "r", " ", "d", "i", "r", "e", "c", "t", "o", "r", "y">>,
       category |-> "file_not_found",
       fixes |-> <<"Check the file path: ls <directory>",
                   "Create the directory: mkdir -p <directory>",
                   "Verify you're in the correct directory: pwd">>,
       description |-> "File or directory does not exist"],
      [pattern |-> <<"g", "i", "t", ".", "*", "Y", "o", "u", "r", " ", "l", "o", "c",
                   "a", "l", " ", "c", "h", "a", "n", "g", "e", "s", ".", "*", "w",
                   "o", "u", "l", "d", " ", "b", "e", " ", "o", "v", "e", "r", "w",
                   "r", "i", "t", "t", "e", "n">>,
       category |-> "git",
       fixes |-> <<"Stash your changes: git stash",
                   "Commit your changes: git add . && git commit -m 'message'",
                   "Discard changes: git checkout -- .">>,
       description |-> "Git merge/pull would overwrite local changes"],
      [pattern |-> <<"g", "i", "t", ".", "*", "f", "a", "t", "a", "l", ":", " ", "n",
                   "o", "t", " ", "a", " ", "g", "i", "t", " ", "r", "e", "p", "o",
                   "s", "i", "t", "o", "r", "y">>,
       category |-> "git",
       fixes |-> <<"Initialize git repository: git init",
                   "Clone a repository: git clone <url>",
                   "Navigate to a git repository directory">>,
       description |-> "Not inside a git repository"],
      [pattern |-> <<"n", "p", "m", ".", "*", "E", "A", "C", "C", "E", "S", ".", "*",
                   "p", "e", "r", "m", "i", "s", "s", "i", "o", "n", " ", "d", "e",
                   "n", "i", "e", "d">>,
       category |-> "npm",
       fixes |-> <<"Fix npm permissions: sudo chown -R $USER ~/.npm",
                   "Use npx instead of global install",
                   "Configure npm to use a different directory">>,
       description |-> "NPM permission error"],
      [pattern |-> <<"p", "i", "p", ".", "*", "e", "x", "t", "e", "r", "n", "a", "l",
                   "l", "y", "-", "m", "a", "n", "a", "g", "e", "d", "-", "e", "n",
                   "v", "i", "r", "o", "n", "m", "e", "n", "t">>,
       category |-> "python",
       fixes |-> <<"Use a virtual environment: python -m venv venv && source venv/bin/activate",
                   "Use pipx for tools: pipx install <package>",
                   "Use --break-system-packages (not recommended)">>,
       description |-> "PIP externally managed environment (PEP 668)"],
      [pattern |-> <<"d", "o", "c", "k", "e", "r", ".", "*", "C", "a", "n", "n", "o",
                   "t", " ", "c", "o", "n", "n", "e", "c", "t", " ", "t", "o", " ",
                   "t", "h", "e", " ", "D", "o", "c", "k", "e", "r", " ", "d", "a",
                   "e", "m", "o", "n">>,
       category |-> "docker",
       fixes |-> <<"Start Docker daemon: sudo systemctl start docker",
                   "Add user to docker group: sudo usermod -aG docker $USER",
                   "Check Docker status: sudo systemctl status docker">>,
       description |-> "Cannot connect to Docker daemon"],
      [pattern |-> <<"d", "i", "s", "k", ".", "*", "f", "u", "l", "l", "|", "N", "o",
                   " ", "s", "p", "a", "c", "e", " ", "l", "e", "f", "t", " ", "o",
                   "n", " ", "d", "e", "v", "i", "c", "e">>,
       category |-> "disk",
       fixes |-> <<"Check disk usage: df -h",
                   "Find large files: du -sh * | sort -h",
                   "Clean package cache (Ubuntu/Debian): sudo apt-get clean",
                   "Clean Docker: docker system prune -a">>,
       description |-> "Disk full error"],
      [pattern |-> <<"p", "o", "r", "t", ".", "*", "a", "l", "r", "e", "a", "d", "y",
                   " ", "i", "n", " ", "u", "s", "e">>,
       category |-> "network",
       fixes |-> <<"Find process using port: lsof -i :<port>",
                   "Kill process: kill -9 <pid>",
                   "Use a different port in your configuration">>,
       description |-> "Port already in use"]
    >>

\* The regular expressions of the pattern store are texts with `.*` and `|`.
\* .* : any run of characters other than a newline
AnyRun == [t |-> "star", s |-> <<>>, set |-> {"\n"}]

\* str.split(sep): the texts between the occurrences of sep
RECURSIVE Split(_, _)
Split(text, sep) ==
    IF Contains(text, sep)
    THEN LET i == CHOOSE i \in 1..Len(text) :
                      /\ OccursAt(text, sep, i)
                      /\ \A j \in 1..(i - 1) : ~OccursAt(text, sep, j)
         IN <<SubSeq(text, 1, i - 1)>> \o Split(SubSeq(text, i + Len(sep), Len(text)), sep)
    ELSE <<text>>

\* one alternative of a pattern: its literal texts with .* between them
Branch(alt) ==
    LET parts == Split(alt, <<".", "*">>) IN
    [k \in 1..(2 * Len(parts) - 1) |->
        IF k % 2 = 1 THEN Lit(parts[(k + 1) \div 2]) ELSE AnyRun]

\* re.compile raises re.error: of the patterns of the stores below, the
\* one with an unbalanced parenthesis
ReError(pattern) == Contains(pattern, <<"(">>)

\* re.search(pattern, error_message, re.IGNORECASE)
PatternSearch(pattern, error_message) ==
    LET alts == Split(pattern, <<"|">>) IN
    \E a \in DOMAIN alts : ReSearchIgnoreCase(Branch(alts[a]), error_message)

\* last_command = None
None == <<"None">>

\* `if last_command:`
Truthy(text) == text # None /\ text # <<>>

BASE_CONFIDENCE == 70
SPECIFIC_LENGTH == 30
SPECIFIC_BONUS == 10
CONTEXT_BONUS == 15
QUICK_FIX_CONFIDENCE == 60

\* the terms of the if/elif chain of _calculate_confidence, in its order
KeyTerms == <<<<"g", "i", "t">>, <<"n", "p", "m">>, <<"d", "o", "c", "k", "e", "r">>,
              <<"p", "i", "p">>>>

\* one branch of the chain is taken
ContextMatches(pattern, last_command) ==
    \E k \in DOMAIN KeyTerms :
        Contains(pattern, KeyTerms[k]) /\ Contains(last_command, KeyTerms[k])

\* faulty variant: the bonus for a specific pattern is left out
CalculateConfidenceFlat(pattern, error_message, last_command) ==
    Min(BASE_CONFIDENCE
            + (IF Truthy(last_command) /\ ContextMatches(pattern, last_command)
               THEN CONTEXT_BONUS ELSE 0),
        Scale)

\* ErrorFixer._calculate_confidence, in hundredths
CalculateConfidence(pattern, error_message, last_command) ==
    Min(BASE_CONFIDENCE
            + (IF Len(pattern) > SPECIFIC_LENGTH THEN SPECIFIC_BONUS ELSE 0)
            + (IF Truthy(last_command) /\ ContextMatches(pattern, last_command)
               THEN CONTEXT_BONUS ELSE 0),
        Scale)

\* the loop of find_fixes: a match for every pattern that compiles and is
\* found in the message, in the order of the store
RECURSIVE Matches(_, _, _)
Matches(patterns, error_message, last_command) ==
    IF patterns = <<>>
    THEN <<>>
    ELSE LET e == Head(patterns)
             rest == Matches(Tail(patterns), error_message, last_command)
         IN IF ~ReError(e.pattern) /\ PatternSearch(e.pattern, error_message)
            THEN <<[category |-> e.category,
                    description |-> e.description,
                    fixes |-> e.fixes,
                    confidence |-> CalculateConfidence(e.pattern, error_message,
                                                       last_command)]>> \o rest
            ELSE rest

\* matches.sort(key = confidence, reverse = True): a stable sort, so x goes
\* behind every member that is not below it
InsertByConfidence(sorted, x) ==
    LET n == Cardinality({i \in DOMAIN sorted : sorted[i].confidence >= x.confidence})
    IN SubSeq(sorted, 1, n) \o <<x>> \o SubSeq(sorted, n + 1, Len(sorted))

RECURSIVE SortByConfidence(_)
SortByConfidence(items) ==
    IF items = <<>>
    THEN <<>>
    ELSE InsertByConfidence(SortByConfidence(SubSeq(items, 1, Len(items) - 1)),
                            items[Len(items)])

\* ErrorFixer.find_fixes
FindFixes(patterns, error_message, last_command) ==
    SortByConfidence(Matches(patterns, error_message, last_command))

\* ErrorFixer.get_quick_fix: the string it returns, None, or the exception
\* that leaves it
GetQuickFix(patterns, error_message, last_command) ==
    LET matches == FindFixes(patterns, error_message, last_command) IN
    IF matches # <<>> /\ matches[1].confidence > QUICK_FIX_CONFIDENCE
    THEN IF matches[1].fixes = <<>>
         THEN [fn |-> "get_quick_fix", raised |-> "IndexError", value |-> None]
         ELSE [fn |-> "get_quick_fix", raised |-> "none", value |-> matches[1].fixes[1]]
    ELSE [fn |-> "get_quick_fix", raised |-> "none", value |-> None]

\* ------------------------------------------------------------- error requests
\* a store some user wrote: a pattern that does not compile, one without
\* fixes, and the first of the default ones
WrittenStore ==
    <<[pattern |-> <<"(">>, category |-> "broken", fixes |-> <<"never offered">>,
       description |-> "does not compile"],
      [pattern |-> <<"s", "e", "g", "f", "a", "u", "l", "t">>, category |-> "crash", fixes |-> <<>>,
       description |-> "no fix known"],
      default_patterns[1]>>

\* what load_error_database leaves in self.error_patterns: the default
\* list (no store file), the list of the file, [] (the file does not parse)
PatternStores == {default_patterns, WrittenStore, <<>>}

\* the error texts of the requests of the model: what a tool prints in
\* front, and the error
ErrorMessages ==
    LET prefixes ==
            {<<>>,
             <<"n", "p", "m", " ", "E", "R", "R", "!", " ", "E", "r", "r", "o", "r", ":", " ",
              "E", "A", "C", "C", "E", "S", ":">>,
             <<"g", "i", "t", ":">>,
             <<"p", "i", "p", ":", " ", "e", "r", "r", "o", "r", ":">>,
             <<"d", "o", "c", "k", "e", "r", ":">>}
        bodies ==
            {<<"p", "e", "r", "m", "i", "s", "s", "i", "o", "n", " ", "d", "e", "n", "i", "e",
              "d">>,
             <<"P", "e", "r", "m", "i", "s", "s", "i", "o", "n", " ", "D", "e", "n", "i", "e",
              "d">>,
             <<"c", "o", "m", "m", "a", "n", "d", " ", "n", "o", "t", " ", "f", "o", "u", "n",
              "d">>,
             <<"N", "o", " ", "s", "p", "a", "c", "e", " ", "l", "e", "f", "t", " ", "o", "n",
              " ", "d", "e", "v", "i", "c", "e">>,
             <<"f", "a", "t", "a", "l", ":", " ", "n", "o", "t", " ", "a", " ", "g", "i", "t",
              " ", "r", "e", "p", "o", "s", "i", "t", "o", "r", "y">>,
             <<"e", "x", "t", "e", "r", "n", "a", "l", "l", "y", "-", "m", "a", "n", "a", "g",
              "e", "d", "-", "e", "n", "v", "i", "r", "o", "n", "m", "e", "n", "t">>,
             <<"s", "e", "g", "f", "a", "u", "l", "t">>,
             <<"d", "i", "s", "k", " ", "i", "s", "\n", "f", "u", "l", "l">>}
    IN {Words(<<p, b>>) : p \in prefixes, b \in bodies}

\* last_command: left out, or the command line that failed
LastCommands ==
    {None} \cup
    {<<>>,
     <<"n", "p", "m", " ", "i">>,
     <<"g", "i", "t", " ", "s", "t", "a", "t", "u", "s">>,
     <<"p", "i", "p", " ", "i", "n", "s", "t", "a", "l", "l", " ", "x">>,
     <<"d", "o", "c", "k", "e", "r", " ", "p", "s">>}

\* ErrorFixer() is constructed; one call of find_fixes or get_quick_fix
FixInit ==
    /\ Fresh
    /\ error_patterns \in PatternStores
    /\ call \in {[fn |-> f, error_message |-> m, last_command |-> c] :
                    f \in {"find_fixes", "get_quick_fix"},
                    m \in ErrorMessages, c \in LastCommands}
    /\ ret = NoRet

FindFixesCall ==
    /\ call.fn = "find_fixes"
    /\ ret = NoRet
    /\ ret' = [fn |-> "find_fixes",
               matches |-> FindFixes(error_patterns, call.error_message,
                                     call.last_command)]
    /\ UNCHANGED <<mem, disk, pc, op, arg, sv, pre, result, calls, call, hist,
                   error_patterns, caller>>

GetQuickFixCall ==
    /\ call.fn = "get_quick_fix"
    /\ ret = NoRet
    /\ ret' = GetQuickFix(error_patterns, call.error_message, call.last_command)
    /\ UNCHANGED <<mem, disk, pc, op, arg, sv, pre, result, calls, call, hist,
                   error_patterns, caller>>

FixNext ==
    \/ FindFixesCall
    \/ GetQuickFixCall

FixSpec == FixInit /\ [][FixNext]_vars

\* ------------------------------------------------------------- ContextExtractor
\* What one subprocess.run(["git", ...], timeout=2) does: it returns with a
\* return code and the text git printed ("done"), or it raises
\* TimeoutExpired ("timeout") or FileNotFoundError, git not being installed
\* ("missing").
Done(returncode, stdout) == [kind |-> "done", returncode |-> returncode, stdout |-> stdout]
TimeoutExpired == [kind |-> "timeout", returncode |-> 0, stdout |-> <<>>]
FileNotFound == [kind |-> "missing", returncode |-> 0, stdout |-> <<>>]

RunRaises(run) == run.kind # "done"

\* a bool as a field that may also hold None
PyBool(b) == IF b THEN <<"True">> ELSE <<"False">>

\* `x.stdout.strip() if x.returncode == 0 else None`
StdoutOrNone(run) == IF run.returncode = 0 THEN Strip(run.stdout) ELSE None

\* `if result.returncode != 0: return {"is_git_repo": False}`
NotInsideWorkTree(run) == run.returncode # 0

\* ContextExtractor._extract_git_info on the four queries, in their order:
\* work tree, branch, status, remote URL; one try block holds all four, and
\* its handler takes every exception
ExtractGitInfo(runs) ==
    IF RunRaises(runs[1])
    THEN [is_git_repo |-> FALSE]
    ELSE IF NotInsideWorkTree(runs[1])
    THEN [is_git_repo |-> FALSE]
    ELSE IF RunRaises(runs[2]) \/ RunRaises(runs[3]) \/ RunRaises(runs[4])
    THEN [is_git_repo |-> FALSE]
    ELSE [is_git_repo |-> TRUE,
          branch |-> StdoutOrNone(runs[2]),
          has_uncommitted_changes |->
              IF runs[3].returncode = 0
              THEN PyBool(Strip(runs[3].stdout) # <<>>)
              ELSE None,
          remote_url |-> StdoutOrNone(runs[4])]

\* what the four queries may do in a directory
WorkTreeRuns ==
    {Done(0, <<"t", "r", "u", "e", "\n">>), Done(128, <<>>), TimeoutExpired, FileNotFound}
BranchRuns ==
    {Done(0, <<"m", "a", "i", "n", "\n">>), Done(0, <<>>), Done(128, <<>>), TimeoutExpired}
StatusRuns ==
    {Done(0, <<" ", "M", " ", "a", "\n">>), Done(0, <<>>), Done(128, <<>>), TimeoutExpired}
RemoteRuns ==
    {Done(0, <<"u", "r", "l", "\n">>), Done(1, <<>>), TimeoutExpired}

\* extract_context is called in some directory
GitInit ==
    /\ Fresh
    /\ error_patterns = <<>>
    /\ call \in {[fn |-> "extract_git_info", runs |-> <<w, b, s, r>>] :
                    w \in WorkTreeRuns, b \in BranchRuns, s \in StatusRuns,
                    r \in RemoteRuns}
    /\ ret = NoRet

ExtractGitInfoCall ==
    /\ call.fn = "extract_git_info"
    /\ ret = NoRet
    /\ ret' = [fn |-> "extract_git_info", raised |-> "none",
               git_info |-> ExtractGitInfo(call.runs)]
    /\ UNCHANGED <<mem, disk, pc, op, arg, sv, pre, result, calls, call, hist,
                   error_patterns, caller>>

GitNext == ExtractGitInfoCall

GitSpec == GitInit /\ [][GitNext]_vars

\* ============================================================= properties

\* position i of the command list is the text whose embedding is vector i
Consistent(ix, cmds) ==
    /\ Len(cmds) = Len(ix.vecs)
    /\ \A i \in 1..Len(cmds) : Embed1(cmds[i]) = ix.vecs[i]

\* a step in which search ran
SearchStep == result' # result /\ result'.op = "search"

\* a step in which load_index ran
LoadStep == pc = "idle" /\ pc' = "idle" /\ calls' = calls /\ result'.op = "load_index"

\* the running call returns or raises in this step
CallEnds == pc # "idle" /\ pc' = "idle" /\ result'.op # "none"

\* ------------------------------------------------------------- C1
\* C1: after any sequence of successful build_index, add_commands and
\* load_index operations on a Retriever, len(commands) equals index.ntotal,
\* the state after a load_index that returned True included.
C1_LenEqualsNtotal ==
    (pc = "idle" /\ hist.allOk /\ index.exists) => Len(commands) = Len(index.vecs)

\* ------------------------------------------------------------- C2
\* every hit of a search on a consistent Retriever carries the text of the
\* vector that matched, and no matched vector is left out
HitsRight ==
    (result.op = "search" /\ result.status = "ok" /\ Consistent(index, commands)) =>
        LET hits == FaissSearch(index.vecs, Embed1(result.query),
                                Min(result.k, Len(index.vecs))) IN
        /\ Len(result.value) = Len(hits)
        /\ \A r \in 1..Len(hits) :
               /\ result.value[r].command = commands[hits[r].idx + 1]
               /\ Embed1(result.value[r].command) = index.vecs[hits[r].idx + 1]

C3_LoadedPairFromOneSave ==
    result.op = "load_index" =>
        /\ result.status \in {"True", "False"}
        /\ result.status = "True" => hist.paired

\* ------------------------------------------------------------- C4
\* C4: build_index with an empty list raises the input error and leaves the
\* index, the command list, the metadata and both files as they were.
C4_EmptyBuildRejected ==
    [][(pc = "idle" /\ calls' = calls + 1) =>
          /\ ~(pc' # "idle" /\ op' = "build_index" /\ arg' = <<>>)
          /\ (pc' = "idle" /\ result'.op = "build_index" /\ result'.arg = <<>>) =>
                 /\ result'.status = "ValueError"
                 /\ UNCHANGED <<index, commands, metadata, blob, sidecar>>]_vars

C4_Witness ==
    /\ result.op = "build_index"
    /\ result.arg = <<>>
    /\ result.status = "ValueError"
    /\ index.exists
    /\ Len(commands) = 2

\* ------------------------------------------------------------- C5
\* C5: add_commands with M new commands on an index of N vectors and N
\* commands yields N+M vectors and N+M commands: the previous commands in
\* their order, then the new ones in the order given (M = 0 changes nothing).
C5_AddAppends ==
    [][/\ (CallEnds /\ op = "add_commands" /\ result'.status = "ok") =>
              /\ index'.exists
              /\ index'.vecs = pre.index.vecs \o EmbedAll(arg)
              /\ commands' = pre.commands \o arg
              /\ Len(index'.vecs) = Len(pre.index.vecs) + Len(arg)
              /\ Len(commands') = Len(pre.commands) + Len(arg)
       /\ (pc = "idle" /\ calls' = calls + 1 /\ pc' = "idle"
             /\ result'.op = "add_commands" /\ result'.status = "ok") =>
              /\ result'.arg = <<>>
              /\ UNCHANGED <<index, commands, metadata>>]_vars

C5_Witness ==
    /\ result.op = "add_commands"
    /\ result.status = "ok"
    /\ Len(result.arg) = 2
    /\ result.arg[1] # result.arg[2]
    /\ Len(commands) = 3
    /\ Len(index.vecs) = 3
    /\ hist.allOk

\* ------------------------------------------------------------- C6
\* C6: once build_index(commands) has set the fields, and after it returned,
\* the index holds exactly the embeddings of commands, the command list is
\* commands in the same order and the metadata is the fresh
\* {num_commands, dimension, index_type}, whatever was there before.
C6_BuildReplaces ==
    /\ (op = "build_index" /\ pc \in {"s_blob", "s_meta"}) =>
           /\ index = [exists |-> TRUE, vecs |-> EmbedAll(arg)]
           /\ commands = arg
           /\ metadata = BuildMetadata(arg)
    /\ (result.op = "build_index" /\ result.status = "ok") =>
           /\ index = [exists |-> TRUE, vecs |-> EmbedAll(result.arg)]
           /\ Len(index.vecs) = Len(result.arg)
           /\ commands = result.arg
           /\ metadata = [num_commands |-> Len(result.arg),
                          dimension |-> Dimension,
                          index_type |-> "IndexFlatL2"]

C6_Witness ==
    /\ op = "build_index"
    /\ pc = "s_blob"
    /\ pre.index.exists
    /\ Len(pre.commands) = 2
    /\ Len(arg) = 1
    /\ commands = arg
    /\ Len(index.vecs) = 1

\* ------------------------------------------------------------- C7
\* what build_index(L) leaves in memory once past its embedding
BuildLeaves(L) ==
    /\ index' = [exists |-> TRUE, vecs |-> EmbedAll(L)]
    /\ commands' = L
    /\ metadata' = BuildMetadata(L)

\* the call under way is build_index, or add_commands on a Retriever
\* without an index
BuildLike == op = "build_index" \/ (op = "add_commands" /\ ~pre.index.exists)

\* C7 as stated: on a Retriever with no index add_commands(L) has the
\* outcome of build_index(L) for every L, the empty list included (for which
\* build_index raises the input error).
C7_AddIsBuild ==
    (result.op = "add_commands" /\ result.arg = <<>> /\ ~index.exists) =>
        result.status = "ValueError"

\* C7 amended: on a Retriever with no index add_commands(L) with a non-empty
\* L ends as build_index(L) does: with the same fields, written to the same
\* files when it saved, or raising the same save error with the same fields;
\* add_commands([]) returns normally and changes nothing.
C7_AddIsBuildNonEmpty ==
    [][/\ (CallEnds /\ BuildLike) =>
              /\ arg # <<>>
              /\ result'.status \in {"ok", "IOError"}
              /\ BuildLeaves(arg)
              /\ (result'.status = "ok" /\ sv) =>
                     /\ blob' = WriteIndex(index')
                     /\ sidecar' = JsonDump(commands', metadata')
              /\ (result'.status = "ok" /\ ~sv) => UNCHANGED <<blob, sidecar>>
       /\ (pc = "idle" /\ calls' = calls + 1 /\ pc' = "idle"
             /\ result'.op = "add_commands" /\ result'.arg = <<>>) =>
              /\ result'.status = "ok"
              /\ UNCHANGED <<index, commands, metadata, blob, sidecar>>]_vars

C7_Witness ==
    /\ result.op = "add_commands"
    /\ result.status = "ok"
    /\ Len(result.arg) = 2
    /\ calls = 1
    /\ blob.state = "absent"
    /\ index = [exists |-> TRUE, vecs |-> EmbedAll(result.arg)]
    /\ commands = result.arg
    /\ metadata = BuildMetadata(result.arg)

\* ------------------------------------------------------------- C8
\* C8: search on a Retriever on which no build_index or load_index ever
\* succeeded raises RuntimeError; search on an index that exists and holds
\* no vector returns the empty list.
C8_SearchBeforeIndex ==
    result.op = "search" =>
        /\ ~hist.everOk => result.status = "RuntimeError"
        /\ (index.exists /\ Len(index.vecs) = 0) =>
               (result.status = "ok" /\ result.value = <<>>)

\* ------------------------------------------------------------- C9
\* C9: load_index never raises; when it returns False the index, the
\* command list and the metadata are what they were, so a Retriever without
\* an index is still without one.
C9_FailedLoadChangesNothing ==
    [][LoadStep =>
          /\ result'.status \in {"True", "False"}
          /\ result'.status = "False" => UNCHANGED <<index, commands, metadata>>]_vars

\* ------------------------------------------------------------- C10
\* C10: when a write of save_index fails inside build_index or add_commands
\* with save=True, the call raises that error to its caller.
C10_SaveFailurePropagates ==
    (pc = "idle" /\ hist.ioFailed) =>
        /\ result.op \in {"build_index", "add_commands"}
        /\ result.status = "IOError"

C10_Witness ==
    /\ pc = "idle"
    /\ hist.ioFailed
    /\ result.op = "add_commands"
    /\ result.status = "IOError"
    /\ sidecar.state = "corrupt"

\* ------------------------------------------------------------- C18
\* a detection pass of check_command appends a reason for the command
PassFires(command) ==
    LET command_lower == Lower(Strip(command)) IN
    \/ DestructiveReasons(command_lower) # <<>>
    \/ SudoReasons(command_lower) # <<>>
    \/ CriticalPathReasons(command, command_lower) # <<>>
    \/ NoPreserveRootReasons(command_lower) # <<>>
    \/ ForceReasons(command, command_lower) # <<>>

HasCriticalIndicator(command) ==
    \E indicator \in CriticalIndicators : Contains(Lower(Strip(command)), indicator)

\* C18: check_command returns safe, no warning and no reason exactly when no
\* detection pass fires; when a pass fires it returns dangerous if the
\* command holds a critical danger indicator and warning otherwise, with a
\* warning text and at least one reason; 'rm -rf /' is dangerous and
\* 'ls -la' is safe.
C18_LevelByPasses ==
    ret.fn = "check_command" =>
        /\ ~PassFires(call.command) =>
               /\ ret.level = "safe"
               /\ ret.warning = "None"
               /\ ret.reasons = <<>>
        /\ PassFires(call.command) =>
               /\ ret.level = (IF HasCriticalIndicator(call.command)
                               THEN "dangerous" ELSE "warning")
               /\ ret.warning # "None"
               /\ ret.reasons # <<>>
        /\ call.command = RM_RF_ROOT => ret.level = "dangerous"
        /\ call.command = LS_LA => ret.level = "safe"

C18_Witness ==
    /\ ret.fn = "check_command"
    /\ call.command = RM_RF_ROOT
    /\ ret.level = "dangerous"
    /\ Len(ret.reasons) = 3
    /\ ret.warning # "None"

\* ------------------------------------------------------------- C19
\* the command, as written, is one of the combinations of the sudo table
SudoCombination(command) ==
    \E k \in DOMAIN SUDO_DANGEROUS_PATTERNS :
        ReSearch(SUDO_DANGEROUS_PATTERNS[k], Strip(command))

\* C19: every command that combines sudo with a dangerous verb of the sudo
\* pattern table is classified warning or dangerous, never safe; among them
\* 'sudo chmod -R 777 /etc' and 'sudo chown -R user:group /'.
C19_SudoNeverSafe ==
    (ret.fn = "check_command" /\ SudoCombination(call.command)) =>
        ret.level \in {"warning", "dangerous"}

\* ------------------------------------------------------------- C20
\* C20: two commands that differ only in letter case get the same level.
C20_CaseInsensitive ==
    ret.fn = "check_command" =>
        \A other \in {Lower(call.command), Upper(call.command)} :
            CheckCommand(other).level = ret.level

\* ------------------------------------------------------------- C13
\* what index.search reported for the search whose result is held
HitsOfResult ==
    FaissSearch(index.vecs, Embed1(result.query), Min(result.k, Len(index.vecs)))

\* C13: every similarity score search returns is 1 - d2/2 for the squared
\* Euclidean distance d2 between the query vector and the stored vector: it
\* lies in [-1, 1] and is 1 for identical vectors.
C13_SimilarityFromD2 ==
    (result.op = "search" /\ result.status = "ok") =>
        \A r \in DOMAIN result.value :
            LET hit == HitsOfResult[result.value[r].rank + 1]
                score == result.value[r].score
            IN /\ 2 * score = 2 - hit.dist
               /\ score >= -1
               /\ score <= 1
               /\ hit.dist = 0 => score = 1

\* ------------------------------------------------------------- C15
\* C15: for k >= 1 on a non-empty index search returns exactly
\* min(k, total_vectors) results, the i-th with rank i (0-based), the scores
\* non-increasing along the list.
C15_SearchResults ==
    (/\ result.op = "search"
     /\ result.status = "ok"
     /\ result.k >= 1
     /\ index.exists
     /\ Len(index.vecs) > 0) =>
        /\ Len(result.value) = Min(result.k, Len(index.vecs))
        /\ \A i \in DOMAIN result.value : result.value[i].rank = i - 1
        /\ \A i, j \in DOMAIN result.value :
               i < j => result.value[i].score >= result.value[j].score

\* ------------------------------------------------------------- C16
\* the text was embedded into the index
Indexed(text) ==
    index.exists /\ \E i \in DOMAIN index.vecs : index.vecs[i] = Embed1(text)

\* C16: search for a query equal to an already-indexed command returns that
\* command at rank 0 with a similarity of at least 0.99.
C16_ExactMatchFirst ==
    (result.op = "search" /\ result.status = "ok" /\ Indexed(result.query)) =>
        /\ result.value # <<>>
        /\ result.value[1].command = result.query
        /\ result.value[1].rank = 0
        /\ 100 * result.value[1].score >= 99

\* ------------------------------------------------------------- C12
\* x stands before y in the order rank is to produce: the higher final
\* score first, the earlier retrieved first among equal scores
RankedBefore(x, y) ==
    \/ x.final_score > y.final_score
    \/ x.final_score = y.final_score /\ x.rank < y.rank

\* C12: rank returns at most max_results candidates for every max_results a
\* request can supply (none when max_results is not positive): the first
\* max_results of the candidates in non-increasing order of final_score,
\* candidates of equal final_score in their retrieval order.
C12_RankTruncates ==
    ret.fn = "rank" =>
        LET scored == [i \in DOMAIN call.candidates |->
                          ScoreCandidate(call.candidates[i], call.context)]
            limit == Max(call.max_results, 0)
            kept == {ret.ranked[i].rank : i \in DOMAIN ret.ranked}
        IN /\ Len(ret.ranked) <= limit
           /\ Len(ret.ranked) = Min(limit, Len(scored))
           /\ \A i \in DOMAIN ret.ranked : ret.ranked[i] = scored[ret.ranked[i].rank + 1]
           /\ \A i, j \in DOMAIN ret.ranked :
                  i < j => RankedBefore(ret.ranked[i], ret.ranked[j])
           /\ \A i \in DOMAIN ret.ranked, j \in DOMAIN scored :
                  scored[j].rank \notin kept => RankedBefore(ret.ranked[i], scored[j])

\* ------------------------------------------------------------- C11
\* the positions of ranked that hold the first entry of their command text
FirstOccurrences(ranked) ==
    {i \in DOMAIN ranked : \A j \in DOMAIN ranked : j < i => ranked[j].command # ranked[i].command}

\* C11: the suggestions get_suggestions returns hold no two entries with the
\* same command text, also when the ranked candidates do; of the entries
\* with one text the first (highest-ranked) is kept, and the kept entries
\* stand in the order they have in the ranked list.
C11_NoDuplicateSuggestions ==
    (ret.fn = "get_suggestions" /\ ret.raised = "none") =>
        LET suggestions == ret.response.suggestions
            first == FirstOccurrences(ret.ranked)
        IN /\ \A i, j \in DOMAIN suggestions :
                  i # j => suggestions[i].command # suggestions[j].command
           /\ Len(suggestions) = Cardinality(first)
           /\ \A i \in first :
                  suggestions[Cardinality({j \in first : j <= i})] = ret.ranked[i]

C11_Witness ==
    /\ ret.fn = "get_suggestions"
    /\ ret.raised = "none"
    /\ Len(ret.ranked) = 2
    /\ ret.ranked[1].command = ret.ranked[2].command
    /\ Len(ret.response.suggestions) = 1
    /\ ret.response.suggestions[1] = ret.ranked[1]

\* ------------------------------------------------------------- C14
\* C14: every candidate of a suggestion response has its semantic score,
\* its context score and its final score within [0, 1].
C14_ScoresInUnitInterval ==
    (ret.fn = "get_suggestions" /\ ret.raised = "none") =>
        \A i \in DOMAIN ret.response.suggestions :
            LET s == ret.response.suggestions[i] IN
            /\ 0 <= s.semantic_score /\ s.semantic_score <= 1
            /\ 0 <= s.context_score /\ s.context_score <= Scale
            /\ 0 <= s.final_score /\ s.final_score <= Scale

\* ------------------------------------------------------------- C17
\* C17: when the Retriever has no index (search raises the no-index error)
\* get_suggestions does not raise: it returns success = false with the error
\* message, the extracted context and an empty suggestion list.
C17_NoIndexIsStructuredFailure ==
    (ret.fn = "get_suggestions" /\ ~index.exists) =>
        /\ ret.raised = "none"
        /\ ret.response = [success |-> FALSE, error |-> NO_INDEX_MESSAGE,
                           suggestions |-> <<>>, context |-> call.context]

C17_Witness ==
    /\ ret.fn = "get_suggestions"
    /\ ~index.exists
    /\ blob.state = "valid"
    /\ ret.raised = "none"
    /\ ret.response.success = FALSE
    /\ ret.response.suggestions = <<>>
    /\ ret.response.context = call.context

\* ------------------------------------------------------------- C21
\* the positions of the store whose pattern is found in the message
MatchingPatterns ==
    {k \in DOMAIN error_patterns :
        /\ ~ReError(error_patterns[k].pattern)
        /\ PatternSearch(error_patterns[k].pattern, call.error_message)}

\* the confidence the description gives the pattern at position k
StatedConfidence(k) ==
    LET pattern == error_patterns[k].pattern
        specific == Len(pattern) > SPECIFIC_LENGTH
        context ==
            /\ Truthy(call.last_command)
            /\ \E k2 \in DOMAIN KeyTerms :
                  /\ Contains(pattern, KeyTerms[k2])
                  /\ Contains(call.last_command, KeyTerms[k2])
    IN Min(Scale, BASE_CONFIDENCE + (IF specific THEN SPECIFIC_BONUS ELSE 0)
                                  + (IF context THEN CONTEXT_BONUS ELSE 0))

\* the place of the match of position k: behind the matches of higher
\* confidence and the earlier ones of the same confidence
StatedPlace(k) ==
    1 + Cardinality({j \in MatchingPatterns :
                        \/ StatedConfidence(j) > StatedConfidence(k)
                        \/ StatedConfidence(j) = StatedConfidence(k) /\ j < k})

\* C21: find_fixes returns one match for every pattern found in the message
\* and no other; each match carries the category, description and fixes of
\* its pattern and the confidence min(1.0, 0.7 [+ 0.1] [+ 0.15]); the matches
\* are in the order of non-increasing confidence, those of equal confidence
\* in the order of the store.
C21_FindFixes ==
    ret.fn = "find_fixes" =>
        /\ Len(ret.matches) = Cardinality(MatchingPatterns)
        /\ \A k \in MatchingPatterns :
              ret.matches[StatedPlace(k)] =
                  [category |-> error_patterns[k].category,
                   description |-> error_patterns[k].description,
                   fixes |-> error_patterns[k].fixes,
                   confidence |-> StatedConfidence(k)]
        /\ \A i \in 1..(Len(ret.matches) - 1) :
              ret.matches[i].confidence >= ret.matches[i + 1].confidence

\* find_fixes has returned two matches of equal confidence, and has
\* returned a match that took both bonuses
C21_Witness ==
    /\ ret.fn = "find_fixes"
    /\ \/ /\ Len(ret.matches) = 2
          /\ ret.matches[1].confidence = ret.matches[2].confidence
          /\ ret.matches[1].category # ret.matches[2].category
       \/ /\ Len(ret.matches) = 1
          /\ ret.matches[1].confidence
                 = BASE_CONFIDENCE + SPECIFIC_BONUS + CONTEXT_BONUS

\* ------------------------------------------------------------- C22
\* C22: get_quick_fix never raises; it returns the first fix of the first
\* match of find_fixes when there is a match and its confidence is above
\* 0.6, and None in every other case, an empty fix list included.
C22_QuickFix ==
    ret.fn = "get_quick_fix" =>
        LET matches == FindFixes(error_patterns, call.error_message, call.last_command)
            top == matches # <<>> /\ matches[1].confidence > QUICK_FIX_CONFIDENCE
        IN /\ ret.raised = "none"
           /\ ret.value = IF top /\ matches[1].fixes # <<>>
                          THEN matches[1].fixes[1]
                          ELSE None

\* ------------------------------------------------------------- C23
NPM_EACCES == default_patterns[6].pattern
PERMISSION_DENIED == default_patterns[1].pattern

\* C23: with the default patterns and no last_command, a message in which
\* both the npm EACCES pattern and `permission denied` are found gets the
\* npm match first.
C23_ToolSpecificFirst ==
    ( /\ ret.fn = "find_fixes"
      /\ error_patterns = default_patterns
      /\ call.last_command = None
      /\ PatternSearch(NPM_EACCES, call.error_message)
      /\ PatternSearch(PERMISSION_DENIED, call.error_message) )
        => ret.matches[1].category = "npm"

\* ------------------------------------------------------------- C24
\* the three parts of the context score the description gives, in hundredths
StatedGitPart(command, context) ==
    IF context.git_info.is_git_repo /\ IsGitCommand(Chars(command))
    THEN (15 * Scale) \div 50 ELSE 0

StatedDirectoryPart(command, context) ==
    IF /\ context.directory_type # GENERAL
       /\ MatchesDirectoryType(Chars(command), context.directory_type)
    THEN (15 * Scale) \div 50 ELSE 0

StatedFilePart(command, context) ==
    IF MatchesFileTypes(Chars(command), context.file_types)
    THEN (10 * Scale) \div 50 ELSE 0

\* C24: every candidate rank returns has context_score = min(1.0, g + d + f)
\* with g = 0.15/0.5 for a git command inside a git repository, d = 0.15/0.5
\* for a command matching a directory type other than general, f = 0.10/0.5
\* for a command naming an observed file extension, and final_score =
\* 0.5 * semantic_score + 0.5 * context_score; no score has a recency part.
C24_ContextScore ==
    ret.fn = "rank" =>
        \A i \in DOMAIN ret.ranked :
            LET r == ret.ranked[i]
                g == StatedGitPart(r.command, call.context)
                d == StatedDirectoryPart(r.command, call.context)
                f == StatedFilePart(r.command, call.context)
            IN /\ r.context_score = Min(Scale, g + d + f)
               /\ r.semantic_score = r.score
               /\ 2 * r.final_score = r.semantic_score * Scale + r.context_score

\* rank has returned a candidate with all three parts in front of one with
\* none, both of the same semantic score
C24_Witness ==
    /\ ret.fn = "rank"
    /\ Len(ret.ranked) = 2
    /\ ret.ranked[1].context_score = 80
    /\ ret.ranked[2].context_score = 0
    /\ ret.ranked[1].score = ret.ranked[2].score

\* ------------------------------------------------------------- C25
\* the value the description gives a field: what its own query produced, or
\* None when that query failed or timed out
StatedField(run, value) ==
    IF run.kind = "done" /\ run.returncode = 0 THEN value ELSE None

\* C25: _extract_git_info never raises, and inside a work tree each of the
\* branch, status and remote-URL queries decides its own field only: a query
\* that fails or times out leaves None in its field, while is_git_repo stays
\* true and the other fields hold what their queries produced.
C25_QueriesFailIndependently ==
    ret.fn = "extract_git_info" =>
        LET runs == call.runs
            inside == runs[1].kind = "done" /\ runs[1].returncode = 0
        IN /\ ret.raised = "none"
           /\ inside =>
                 ret.git_info =
                     [is_git_repo |-> TRUE,
                      branch |-> StatedField(runs[2], Strip(runs[2].stdout)),
                      has_uncommitted_changes |->
                          StatedField(runs[3], PyBool(Strip(runs[3].stdout) # <<>>)),
                      remote_url |-> StatedField(runs[4], Strip(runs[4].stdout))]
           /\ ~inside => ret.git_info = [is_git_repo |-> FALSE]

\* ------------------------------------------------------------- C26
\* C26: a build_index or add_commands call that raises, on an embedding
\* failure or a failed write of save_index, leaves the index, the command
\* list and the metadata in memory as they were before the call.
C26_RaiseChangesNothing ==
    [][/\ (CallEnds /\ op \in {"build_index", "add_commands"}
             /\ ~Succeeded(result'.status)) =>
              /\ index' = pre.index
              /\ commands' = pre.commands
              /\ metadata' = pre.metadata
       /\ (pc = "idle" /\ calls' = calls + 1 /\ pc' = "idle"
             /\ result'.op \in {"build_index", "add_commands"}
             /\ ~Succeeded(result'.status)) =>
              UNCHANGED <<index, commands, metadata>>]_vars

\* ------------------------------------------------------------- C28
\* C28: build_index and add_commands never modify a list the caller supplied:
\* the list passed to build_index holds, after any later add_commands, what
\* it held when it was passed.
C28_CallerListKept == caller.list = caller.passed

\* ------------------------------------------------------------- C27
\* C27: once a /rebuild-index request has succeeded, every later suggestion
\* request is answered from the rebuilt index: each command it suggests is
\* of the list of the last rebuild that succeeded.
C27_SuggestionsFromRebuiltIndex ==
    (ret.fn = "get_suggestions" /\ ret.raised = "none" /\ hist.rebuilt # <<>>) =>
        \A i \in DOMAIN ret.response.suggestions :
            \E j \in DOMAIN hist.rebuilt :
                ret.response.suggestions[i].command = hist.rebuilt[j]

\* ------------------------------------------------------------- C29
\* the answer in ret is the one get_suggestions gives for the query vector qv
AnsweredFor(qv) ==
    /\ ret.fn = "get_suggestions"
    /\ ret = GetSuggestionsOutcome(index, commands, qv, call.context, call.max_suggestions)
    /\ ret.raised = "none"
    /\ ret.response.success

\* the candidates search retrieved for qv, every one of them ranked
AllRanked(qv) ==
    LET found == SearchByVector(index, commands, qv, TOP_K_CANDIDATES).value
    IN Rank(found, call.context, Len(found))

\* the first n members of a list, none when n is not positive
FirstOf(items, n) == SubSeq(items, 1, Min(Max(n, 0), Len(items)))

\* C29: the number of suggestions of a successful answer is the number of
\* distinct command texts among the first max_suggestions ranked candidates:
\* duplicates are removed after the ranked list is cut.
C29_DedupAfterTruncation ==
    \A qv \in UnitVectors :
        AnsweredFor(qv) =>
            LET first == FirstOf(AllRanked(qv), call.max_suggestions) IN
            Len(ret.response.suggestions)
                = Cardinality({first[i].command : i \in DOMAIN first})

\* ------------------------------------------------------------- C30
\* C30: a successful answer holds at most min(max_suggestions,
\* TOP_K_CANDIDATES, index size) suggestions, and its total_candidates is
\* min(TOP_K_CANDIDATES, index size): the search is made with the default k
\* whatever max_suggestions is.
C30_DefaultK ==
    \A qv \in UnitVectors :
        AnsweredFor(qv) =>
            LET size == Len(index.vecs) IN
            /\ Len(ret.response.suggestions)
                   <= Min(call.max_suggestions, Min(TOP_K_CANDIDATES, size))
            /\ "total_candidates" \in DOMAIN ret.response
            /\ ret.response.total_candidates = Min(TOP_K_CANDIDATES, size)

====
